---- MODULE Spec2Model ----
(***************************************************************************)
(* Track resolution and registry cache of dbh-go-srv.                      *)
(*                                                                         *)
(* Conversion requests (handleConvert) run concurrently.  Each obtains a   *)
(* DAB client, validates its token, and resolves its tracks one after      *)
(* another with MatchTrack: registry lookup, MusicBrainz enrichment,       *)
(* Qobuz search with DAB fallback, scoring, and a registry upsert that is  *)
(* started as a goroutine.  The registry is the SQLite table               *)
(* track_registry; its rows are kept in rowid (insertion) order, which is  *)
(* the order in which QueryRow sees the rows matching a key.               *)
(***************************************************************************)
EXTENDS Integers, Sequences, FiniteSets, Bags, TLC

(* ------------------------------ bounds -------------------------------- *)

\* concurrent conversion requests
NumRequests == 2

\* what the callers bring to the server: requests, tracks handed to
\* MatchTrack and disconnects, together
MaxWork == 4

\* candidates in one search response
MaxResults == 2

\* tracks of a playlist, rows of a CSV file
MaxTracks == 2

Requests == 1..NumRequests

(* ------------------------------ values -------------------------------- *)

\* ISRC strings are handled through their characters
Chars(s) ==
    CASE s = "GBAYE2000674" -> <<"G","B","A","Y","E","2","0","0","0","6","7","4">>
      [] s = "USUM71921131" -> <<"U","S","U","M","7","1","9","2","1","1","3","1">>
      [] s = "gbaye2000674" -> <<"g","b","a","y","e","2","0","0","0","6","7","4">>
      [] s = "GBAYE20006"   -> <<"G","B","A","Y","E","2","0","0","0","6">>
      [] OTHER -> << >>

Upper == {"A","B","C","D","E","F","G","H","I","J","K","L","M",
          "N","O","P","Q","R","S","T","U","V","W","X","Y","Z"}

Digit == {"0","1","2","3","4","5","6","7","8","9"}

\* a check of the length only
isValidISRCByLength(s) == Len(Chars(s)) = 12

isValidISRC(s) ==
    LET c == Chars(s) IN
    /\ Len(c) = 12
    /\ \A i \in 1..Len(c) :
          /\ (i - 1 < 2 => c[i] \in Upper)
          /\ (i - 1 >= 2 /\ i - 1 < 5 => c[i] \in Upper)
          /\ (i - 1 >= 5 => c[i] \in Digit)

iif(condition, a, b) == IF condition THEN a ELSE b

\* models.Track: the fields MatchTrack and the registry read
Track(type, sourceID, isrc) == [Type |-> type, SourceID |-> sourceID, ISRC |-> isrc]

\* descriptors the extractors hand to MatchTrack: Spotify tracks, YouTube
\* videos (no ISRC) and CSV rows (no Type, no SourceID)
Tracks ==
    { Track("spotify", "s1", "GBAYE2000674"),
      Track("youtube", "y1", ""),
      Track("", "", "GBAYE2000674") }

NoTrack == Track("", "", "")

\* dab.DabTrack: ID, the Jaro-Winkler similarity (percent) of its
\* "artist title" to the descriptor's, and its audio quality (sampling rate
\* in kHz, bit depth)
Cand(id, sim, rate, depth) ==
    [ID |-> id, sim |-> sim, SamplingRate |-> rate, BitDepth |-> depth]

Cands == { Cand(1, 96, 44, 16), Cand(2, 90, 96, 24) }

NoCand == Cand(0, 0, 0, 0)

RECURSIVE SeqsUpTo(_, _)
SeqsUpTo(S, n) ==
    IF n = 0 THEN { << >> }
    ELSE LET shorter == SeqsUpTo(S, n - 1) IN
         shorter \cup { Append(q, x) : q \in { s \in shorter : Len(s) = n - 1 }, x \in S }

\* search responses: candidate lists without repeated ids
Responses ==
    { q \in SeqsUpTo(Cands, MaxResults) :
        \A i, j \in 1..Len(q) : i # j => q[i].ID # q[j].ID }

(* ----------------------------- registry ------------------------------ *)

\* database.TrackMapping
TrackMapping(dabID, isrc, spotifyID, youtubeID) ==
    [DabID |-> dabID, ISRC |-> isrc, SpotifyID |-> spotifyID, YoutubeID |-> youtubeID]

\* a row of track_registry (last_updated is not read by any lookup)
Row(m) ==
    [dab_id |-> m.DabID, isrc |-> m.ISRC, spotify_id |-> m.SpotifyID,
     youtube_id |-> m.YoutubeID]

\* the musicbrainz.go copy of the statement: COALESCE(NULLIF(excluded.f, ''), f)
MergeFieldIncomingWins(existing, incoming) ==
    IF incoming # "" THEN incoming ELSE existing

\* a plain SET f = excluded.f
MergeFieldOverwrite(existing, incoming) == incoming

\* ON CONFLICT(dab_id) DO UPDATE SET f = COALESCE(NULLIF(f, ''), excluded.f)
MergeField(existing, incoming) ==
    IF existing # "" THEN existing ELSE incoming

HasRow(reg, dabID) == \E i \in 1..Len(reg) : reg[i].dab_id = dabID

RowOf(reg, dabID) == reg[CHOOSE i \in 1..Len(reg) : reg[i].dab_id = dabID]

\* an INSERT OR REPLACE: the incoming mapping takes the place of the row
UpsertMappingReplace(dbh, reg, m) ==
    IF dbh = "nil" THEN reg
    ELSE IF HasRow(reg, m.DabID)
    THEN [i \in 1..Len(reg) |-> IF reg[i].dab_id = m.DabID THEN Row(m) ELSE reg[i]]
    ELSE Append(reg, Row(m))

\* UpsertMapping: one INSERT ... ON CONFLICT(dab_id) DO UPDATE statement.
\* A new row gets the next rowid; an updated row keeps its rowid.
UpsertMapping(dbh, reg, m) ==
    IF dbh = "nil" THEN reg
    ELSE IF HasRow(reg, m.DabID)
    THEN [i \in 1..Len(reg) |->
            IF reg[i].dab_id = m.DabID
            THEN [dab_id     |-> reg[i].dab_id,
                  isrc       |-> MergeField(reg[i].isrc, m.ISRC),
                  spotify_id |-> MergeField(reg[i].spotify_id, m.SpotifyID),
                  youtube_id |-> MergeField(reg[i].youtube_id, m.YoutubeID)]
            ELSE reg[i]]
    ELSE Append(reg, Row(m))

SourceTypes == {"spotify", "youtube", "isrc"}

Column(row, sourceType) ==
    CASE sourceType = "spotify" -> row.spotify_id
      [] sourceType = "youtube" -> row.youtube_id
      [] sourceType = "isrc"    -> row.isrc

Matching(reg, sourceType, sourceID) ==
    { i \in 1..Len(reg) : Column(reg[i], sourceType) = sourceID }

Min(S) == CHOOSE x \in S : \A y \in S : x <= y

\* a lookup whose switch knows the spotify column only
GetDabIDFromSourceSpotifyOnly(dbh, reg, sourceType, sourceID, queryFails) ==
    IF dbh = "nil" \/ sourceType # "spotify" THEN [id |-> "", err |-> TRUE]
    ELSE IF queryFails \/ Matching(reg, sourceType, sourceID) = {}
    THEN [id |-> "", err |-> TRUE]
    ELSE [id |-> reg[Min(Matching(reg, sourceType, sourceID))].dab_id, err |-> FALSE]

\* GetDabIDFromSource: (dabID, err).  queryFails is the outcome of the
\* store for this call; no matching row is sql.ErrNoRows; of several
\* matching rows QueryRow scans the first in rowid order.
GetDabIDFromSource(dbh, reg, sourceType, sourceID, queryFails) ==
    IF dbh = "nil" THEN [id |-> "", err |-> TRUE]
    ELSE IF sourceType \notin SourceTypes THEN [id |-> "", err |-> TRUE]
    ELSE IF queryFails \/ Matching(reg, sourceType, sourceID) = {}
    THEN [id |-> "", err |-> TRUE]
    ELSE [id |-> reg[Min(Matching(reg, sourceType, sourceID))].dab_id, err |-> FALSE]

(* ------------------------------ matching ------------------------------ *)

\* acceptance thresholds of the scoring loop, as percentages
StrictThreshold == 95

LenientThreshold == 85

\* the confidence given to every candidate of an ISRC query
PerfectScore == 100

\* tokens a fresh rate.Limiter holds (its burst)
Burst == 1

Modes == {"strict", "lenient"}

Threshold(mode) == IF mode = "strict" THEN StrictThreshold ELSE LenientThreshold

\* models.MatchResult; DabTrackID "" is the nil pointer, RawTrack NoCand is nil
MatchResult(track, status, dabID, raw, confidence) ==
    [Track |-> track, MatchStatus |-> status, DabTrackID |-> dabID,
     RawTrack |-> raw, Confidence |-> confidence]

NoResult == MatchResult(NoTrack, "", "", NoCand, 0)

\* the result literal of the two cache-hit returns: Confidence and RawTrack
\* keep their zero values
CacheHit(track, cachedID) == MatchResult(track, "FOUND", cachedID, NoCand, 0)

\* a NOT_FOUND result that leaves the Track field at its zero value
NotFoundBare(track) == MatchResult(NoTrack, "NOT_FOUND", "", NoCand, 0)

NotFound(track) == MatchResult(track, "NOT_FOUND", "", NoCand, 0)

\* a scoring loop that accepts only scores above the threshold
RECURSIVE BestFromAbove(_, _, _, _, _, _)
BestFromAbove(results, i, mode, useISRC, bestMatch, highestScore) ==
    IF i > Len(results) THEN [bestMatch |-> bestMatch, highestScore |-> highestScore]
    ELSE LET score == IF useISRC THEN PerfectScore ELSE results[i].sim IN
         IF score > Threshold(mode) /\ score > highestScore
         THEN BestFromAbove(results, i + 1, mode, useISRC, results[i], score)
         ELSE BestFromAbove(results, i + 1, mode, useISRC, bestMatch, highestScore)

\* a scoring loop in which a later candidate of equal score replaces the best
RECURSIVE BestFromLatest(_, _, _, _, _, _)
BestFromLatest(results, i, mode, useISRC, bestMatch, highestScore) ==
    IF i > Len(results) THEN [bestMatch |-> bestMatch, highestScore |-> highestScore]
    ELSE LET score == IF useISRC THEN PerfectScore ELSE results[i].sim IN
         IF score >= Threshold(mode) /\ score >= highestScore
         THEN BestFromLatest(results, i + 1, mode, useISRC, results[i], score)
         ELSE BestFromLatest(results, i + 1, mode, useISRC, bestMatch, highestScore)

\* the scoring loop over results[i..]: (bestMatch, highestScore)
RECURSIVE BestFrom(_, _, _, _, _, _)
BestFrom(results, i, mode, useISRC, bestMatch, highestScore) ==
    IF i > Len(results) THEN [bestMatch |-> bestMatch, highestScore |-> highestScore]
    ELSE LET score == IF useISRC THEN PerfectScore ELSE results[i].sim IN
         IF score >= Threshold(mode) /\ score > highestScore
         THEN BestFrom(results, i + 1, mode, useISRC, results[i], score)
         ELSE BestFrom(results, i + 1, mode, useISRC, bestMatch, highestScore)

Best(results, mode, useISRC) == BestFrom(results, 1, mode, useISRC, NoCand, 0)

\* a mapping that carries the source id in both platform columns
MappingForAnySource(track, idStr) ==
    TrackMapping(idStr, track.ISRC, track.SourceID, track.SourceID)

\* the mapping handed to the UpsertMapping goroutine
MappingFor(track, idStr) ==
    TrackMapping(idStr, track.ISRC,
                 iif(track.Type = "spotify", track.SourceID, ""),
                 iif(track.Type = "youtube", track.SourceID, ""))

\* the query MatchTrack gives to client.Search: the ISRC, or "artist title"
QueryType(track) == IF isValidISRC(track.ISRC) THEN "isrc" ELSE "text"

\* MatchTrack after client.Search returned: the result
Scored(track, results, mode) ==
    IF Len(results) = 0 THEN NotFound(track)
    ELSE LET b == Best(results, mode, isValidISRC(track.ISRC)) IN
         IF b.bestMatch # NoCand
         THEN MatchResult(track, "FOUND", ToString(b.bestMatch.ID), b.bestMatch,
                          b.highestScore)
         ELSE NotFound(track)

(* ------------------------------- state -------------------------------- *)

VARIABLES
    db,            \* the *sql.DB handle: "open" or "nil"
    registry,      \* rows of track_registry in rowid order
    pending,       \* bag of mappings whose UpsertMapping goroutine has not run
    limiters,      \* tokens of every rate.Limiter GetClient has made
    mbLimiter,     \* tokens of the MusicBrainz limiter
    client,        \* per request: the *dab.Client GetClient returned
    pc,            \* per request: where handleConvert / MatchTrack stands
    cur,           \* per request: the resolution in progress
    res,           \* per request: the result MatchTrack has just returned
    last,          \* per request: descriptor and DabTrackID of the latest result
    again,         \* per request: DabTrackID the same descriptor got just before
    started,       \* requests received, MatchTrack calls and disconnects so far
    written,       \* per dab_id and column: the distinct non-empty values the
                   \* executed upserts carried, in the order of their first write
    cancelled      \* per request: "" while the caller is connected, else whether
                   \* the request was in a limiter wait when the caller left

vars == <<db, registry, pending, limiters, mbLimiter, client, pc, cur, res, last,
          again, started, written, cancelled>>

NoClient == [Limiter |-> 0, Token |-> 0]

NoNet == [mb |-> 0, qobuz |-> 0, dab |-> 0]

\* the locals of one MatchTrack call: the caller's descriptor, the local
\* copy t, the calls issued, whether the latest registry lookup failed
\* although a row held the key, how the result was reached, what Qobuz and
\* DAB answered and whose candidates Search returned, the kinds of the queries
\* given to client.Search and whether the last one returned no track
Fresh(track) ==
    [input |-> track, t |-> track, net |-> NoNet, lookupErr |-> FALSE,
     via |-> "", qobuz |-> "", dab |-> "", from |-> "", queries |-> << >>,
     empty |-> FALSE]

NoLast == [input |-> NoTrack, id |-> ""]

DabIDs == { ToString(c.ID) : c \in Cands }

\* the server has started and no request has arrived.  The handle is the one
\* main opened, or nil: MatchTrack, UpsertMapping and GetDabIDFromSource
\* each provide for a nil *sql.DB.
Init ==
    /\ db \in {"open", "nil"}
    /\ registry = << >>
    /\ pending = EmptyBag
    /\ limiters = << >>
    /\ mbLimiter = Burst
    /\ client = [r \in Requests |-> NoClient]
    /\ pc = [r \in Requests |-> "idle"]
    /\ cur = [r \in Requests |-> Fresh(NoTrack)]
    /\ res = [r \in Requests |-> NoResult]
    /\ last = [r \in Requests |-> NoLast]
    /\ again = [r \in Requests |-> ""]
    /\ started = 0
    /\ written = [d \in DabIDs |-> [isrc |-> << >>, spotify_id |-> << >>,
                                     youtube_id |-> << >>]]
    /\ cancelled = [r \in Requests |-> ""]

(* --------------------------- handleConvert ---------------------------- *)

\* requests are numbered in the order in which they arrive
Arrives(r) == pc[r] = "idle" /\ \A q \in Requests : q < r => pc[q] # "idle"

\* handleConvert with no X-DAB-Token header: 401 before anything else
RejectMissingToken(r) ==
    /\ Arrives(r)
    /\ started < MaxWork
    /\ started' = started + 1
    /\ pc' = [pc EXCEPT ![r] = "rejected"]
    /\ UNCHANGED <<db, registry, pending, limiters, mbLimiter, client, cur,
                   res, last, again, written, cancelled>>

\* GetClient builds a Client around a rate.Limiter of its own: the index of
\* the limiter the new client holds
GetClient(made) == Len(made) + 1

\* a GetClient that keeps one Client for the process and stores the token of
\* its latest caller in it: every request that holds the Client sends that
\* token
SharedClient(clients, r, l) ==
    [q \in Requests |->
        IF q = r \/ clients[q] # NoClient THEN [Limiter |-> l, Token |-> r]
        ELSE clients[q]]

\* GetClient(token) returns a new Client that holds the token; request r
\* keeps it in a local of its handleConvert.  The token of request r is r:
\* concurrent requests come with different tokens.
NewClient(clients, r, l) ==
    [clients EXCEPT ![r] = [Limiter |-> l, Token |-> r]]

\* handleConvert takes the X-DAB-Token and calls GetClient
StartRequest(r) ==
    /\ Arrives(r)
    /\ started < MaxWork
    /\ started' = started + 1
    /\ LET l == GetClient(limiters) IN
       /\ client' = NewClient(client, r, l)
       /\ limiters' = IF l > Len(limiters) THEN Append(limiters, Burst) ELSE limiters
    /\ pc' = [pc EXCEPT ![r] = "auth"]
    /\ UNCHANGED <<db, registry, pending, mbLimiter, cur, res, last, again,
                   written, cancelled>>

\* a Do that sends the request without a token
TakeNothing(l) == limiters

\* Client.Do: Limiter.Wait returns once the client's limiter has a token
Take(l) == [limiters EXCEPT ![l] = limiters[l] - 1]

\* client.ValidateToken through Client.Do; a failure is answered with 401
ValidateToken(r) ==
    /\ pc[r] = "auth"
    /\ limiters[client[r].Limiter] > 0
    /\ limiters' = Take(client[r].Limiter)
    /\ \E valid \in BOOLEAN :
          pc' = [pc EXCEPT ![r] = IF valid THEN "ready" ELSE "rejected"]
    /\ UNCHANGED <<db, registry, pending, mbLimiter, client, cur, res, last, again,
                   started, written, cancelled>>

\* the matching loop reaches its next track and calls MatchTrack
BeginTrack(r) ==
    /\ pc[r] = "ready"
    /\ cancelled[r] = ""
    /\ started < MaxWork
    /\ started' = started + 1
    /\ \E track \in Tracks :
          /\ cur' = [cur EXCEPT ![r] = Fresh(track)]
          /\ again' = [again EXCEPT ![r] = IF track = last[r].input THEN last[r].id
                                           ELSE ""]
    /\ last' = [last EXCEPT ![r] = NoLast]
    /\ pc' = [pc EXCEPT ![r] = "cache"]
    /\ UNCHANGED <<db, registry, pending, limiters, mbLimiter, client, res,
                   written, cancelled>>

\* MatchTrack has returned: the result is appended to results and sent as a
\* processing event; the locals of the call are gone
Emit(r) ==
    /\ pc[r] = "emit"
    /\ last' = [last EXCEPT ![r] = [input |-> cur[r].input, id |-> res[r].DabTrackID]]
    /\ cur' = [cur EXCEPT ![r] = Fresh(NoTrack)]
    /\ res' = [res EXCEPT ![r] = NoResult]
    /\ again' = [again EXCEPT ![r] = ""]
    /\ pc' = [pc EXCEPT ![r] = "ready"]
    /\ UNCHANGED <<db, registry, pending, limiters, mbLimiter, client, started,
                   written, cancelled>>

\* request r is inside Limiter.Wait and no token is there
Waiting(r) ==
    \/ pc[r] = "auth" /\ limiters[client[r].Limiter] = 0
    \/ pc[r] = "enrich" /\ mbLimiter = 0

\* the caller of request r disconnects: r.Context() is cancelled
Cancel(r) ==
    /\ pc[r] \in {"auth", "ready", "cache", "enrich", "search", "emit"}
    /\ cancelled[r] = ""
    /\ started < MaxWork
    /\ started' = started + 1
    /\ cancelled' = [cancelled EXCEPT ![r] = IF Waiting(r) THEN "waiting" ELSE "running"]
    /\ UNCHANGED <<db, registry, pending, limiters, mbLimiter, client, pc, cur, res,
                   last, again, written>>

\* the matching loop finds ctx.Done() closed before its next track and returns
Disconnected(r) ==
    /\ pc[r] = "ready"
    /\ cancelled[r] # ""
    /\ pc' = [pc EXCEPT ![r] = "gone"]
    /\ UNCHANGED <<db, registry, pending, limiters, mbLimiter, client, cur, res,
                   last, again, started, written, cancelled>>

(* ----------------------------- MatchTrack ----------------------------- *)

\* MatchTrack returns result
Return(r, result, how, calls, lookupErr) ==
    /\ res' = [res EXCEPT ![r] = result]
    /\ cur' = [cur EXCEPT ![r].t = result.Track, ![r].net = calls, ![r].via = how,
                          ![r].lookupErr = lookupErr]
    /\ pc' = [pc EXCEPT ![r] = "emit"]

\* a MatchTrack whose first step returns whatever the lookup gave, error
\* or not
Step1AbortOnError(dbh, g, t) ==
    IF dbh # "nil" /\ (g.err \/ g.id # "") THEN "return"
    ELSE IF t.Type = "youtube" /\ t.ISRC = "" THEN "enrich"
    ELSE "search"

\* a MatchTrack whose first step ignores the registry's answer
Step1NoCache(dbh, g, t) ==
    IF t.Type = "youtube" /\ t.ISRC = "" THEN "enrich" ELSE "search"

\* step 1, the registry check: what MatchTrack does with the lookup's answer g
Step1(dbh, g, t) ==
    IF dbh # "nil" /\ g.err = FALSE /\ g.id # "" THEN "return"
    ELSE IF t.Type = "youtube" /\ t.ISRC = "" THEN "enrich"
    ELSE "search"

\* the store fails a query only where the failure shows: a row holds the key
CanFail(dbh, reg, sourceType, sourceID) ==
    IF dbh # "nil" /\ sourceType \in SourceTypes
          /\ Matching(reg, sourceType, sourceID) # {}
    THEN BOOLEAN ELSE {FALSE}

CacheCheck(r) ==
    /\ pc[r] = "cache"
    /\ \E queryFails \in CanFail(db, registry, cur[r].t.Type, cur[r].t.SourceID) :
         LET t == cur[r].t
             g == GetDabIDFromSource(db, registry, t.Type, t.SourceID, queryFails)
             next == Step1(db, g, t)
         IN  IF next = "return"
             THEN Return(r, CacheHit(t, g.id), "cache", cur[r].net, queryFails)
             ELSE /\ cur' = [cur EXCEPT ![r].lookupErr = queryFails]
                  /\ pc' = [pc EXCEPT ![r] = IF next = "enrich" THEN "enrich" ELSE "search"]
                  /\ UNCHANGED res
    /\ UNCHANGED <<db, registry, pending, limiters, mbLimiter, client, last, again,
                   started, written, cancelled>>

\* the score a recording must exceed for its ISRC to be taken
MBMinScore == 80

\* a recording of a MusicBrainzResponse
Recording(score, isrcs) == [Score |-> score, ISRCs |-> isrcs]

MBRecordings ==
    { Recording(score, isrcs) :
        score \in {80, 90},
        isrcs \in {<< >>, <<"GBAYE2000674">>, <<"USUM71921131", "GBAYE2000674">>} }

\* what client.Do and the decoder give GetISRCFromMetadata: a transport
\* error, or a response with a status and a body that decodes to a list of
\* recordings or does not decode
MBOutcome(err, status, decodes, recordings) ==
    [err |-> err, StatusCode |-> status, decodes |-> decodes,
     Recordings |-> recordings]

MBOutcomes ==
    {MBOutcome(TRUE, 0, FALSE, << >>)}
    \cup { MBOutcome(FALSE, status, FALSE, << >>) : status \in {200, 503} }
    \cup { MBOutcome(FALSE, status, TRUE, recordings) :
             status \in {200, 503}, recordings \in SeqsUpTo(MBRecordings, MaxResults) }

\* the loop over res.Recordings[i..]: the first ISRC of the first recording
\* that scores above MBMinScore and has an ISRC
RECURSIVE FirstISRC(_, _)
FirstISRC(recordings, i) ==
    IF i > Len(recordings) THEN ""
    ELSE IF recordings[i].Score > MBMinScore /\ Len(recordings[i].ISRCs) > 0
    THEN recordings[i].ISRCs[1]
    ELSE FirstISRC(recordings, i + 1)

\* a GetISRCFromMetadata that reads the body whatever the status
GetISRCFromMetadataAnyStatus(o) ==
    IF o.err THEN ""
    ELSE IF ~o.decodes THEN ""
    ELSE FirstISRC(o.Recordings, 1)

\* GetISRCFromMetadata, after the wait for mbLimiter, for the outcome o of
\* the request
GetISRCFromMetadata(o) ==
    IF o.err \/ o.StatusCode # 200 THEN ""
    ELSE IF ~o.decodes THEN ""
    ELSE FirstISRC(o.Recordings, 1)

\* what GetISRCFromMetadata can return: nothing, or the first ISRC of a
\* recording, whatever its shape
MBAnswers == { GetISRCFromMetadata(o) : o \in MBOutcomes }

\* a step 2 that stores the ISRC and searches without asking the registry
Step2NoLookup(g, mbISRC) == "search"

\* step 2, the second registry check: with an ISRC from MusicBrainz, by ISRC
Step2(g, mbISRC) ==
    IF mbISRC # "" /\ g.err = FALSE /\ g.id # "" THEN "return" ELSE "search"

\* step 2 for a YouTube track without ISRC: GetISRCFromMetadata waits for the
\* MusicBrainz limiter and queries; a returned ISRC is stored in t and looked
\* up in the registry
Enrich(r) ==
    /\ pc[r] = "enrich"
    /\ mbLimiter > 0
    /\ mbLimiter' = mbLimiter - 1
    /\ \E mbISRC \in MBAnswers :
       \E queryFails \in CanFail(db, registry, "isrc", mbISRC) :
         LET t == [cur[r].t EXCEPT !.ISRC = IF mbISRC # "" THEN mbISRC ELSE @]
             g == GetDabIDFromSource(db, registry, "isrc", mbISRC, queryFails)
             n == [cur[r].net EXCEPT !.mb = @ + 1]
             e == mbISRC # "" /\ queryFails
         IN  IF Step2(g, mbISRC) = "return"
             THEN Return(r, CacheHit(t, g.id), "isrc_cache", n, e)
             ELSE /\ cur' = [cur EXCEPT ![r].t = t, ![r].net = n, ![r].lookupErr = e]
                  /\ pc' = [pc EXCEPT ![r] = "search"]
                  /\ UNCHANGED res
    /\ UNCHANGED <<db, registry, pending, limiters, client, last, again, started,
                   written, cancelled>>

\* a plain call of UpsertMapping: MatchTrack returns after the statement
Call(dbh, reg, pend, m) ==
    [registry |-> UpsertMapping(dbh, reg, m), pending |-> pend]

\* go database.UpsertMapping(db, m): the goroutine is started and MatchTrack
\* goes on; the registry is as it was
Go(dbh, reg, pend, m) ==
    [registry |-> reg, pending |-> pend (+) SetToBag({m})]

\* a searchDab that returns the tracks of the body whatever went wrong
searchDabAnyBody(err, answer) == answer

\* searchDab: a failed Do, a status other than 200 or a body that does not
\* decode give nil; otherwise the tracks of the body
searchDab(err, answer) == IF err THEN << >> ELSE answer

\* a Search that goes on to searchDab after a Qobuz error only
FallsBackOnErrorOnly(err, qTracks) == err

\* Client.Search: whether the Qobuz answer sends it on to searchDab
FallsBack(err, qTracks) == ~(err = FALSE /\ Len(qTracks) > 0)

\* steps 3 to 5, with the mode parameter of the call.  client.Search: searchQobuz goes straight through the HTTP
\* client; searchDab goes through Client.Do, which waits for the client's
\* limiter, and an error, a non-200 status or an undecodable body give no
\* tracks.  Then the results are scored, the UpsertMapping goroutine is
\* started for a match and MatchTrack returns.
Search(r) ==
    /\ pc[r] = "search"
    /\ \E mode \in Modes, err \in BOOLEAN, qAnswer \in Responses,
          dErr \in BOOLEAN, dAnswer \in Responses :
         LET t       == cur[r].t
             qTracks == IF err THEN << >> ELSE qAnswer
             toDab   == FallsBack(err, qTracks)
             results == IF toDab THEN searchDab(dErr, dAnswer) ELSE qTracks
             result  == Scored(t, results, mode)
             found   == result.MatchStatus = "FOUND"
         IN  /\ err => qAnswer = << >>
             /\ ~toDab => dAnswer = << >> /\ ~dErr
             /\ toDab => limiters[client[r].Limiter] > 0
             /\ limiters' = IF toDab THEN Take(client[r].Limiter) ELSE limiters
             /\ res' = [res EXCEPT ![r] = result]
             /\ cur' = [cur EXCEPT
                          ![r].net.qobuz = @ + 1,
                          ![r].net.dab = IF toDab THEN @ + 1 ELSE @,
                          ![r].qobuz = IF err THEN "err"
                                       ELSE IF Len(qTracks) = 0 THEN "empty" ELSE "hit",
                          ![r].from = IF toDab THEN "dab" ELSE "qobuz",
                          ![r].dab = IF ~toDab THEN ""
                                     ELSE IF dErr THEN "err"
                                     ELSE IF Len(results) = 0 THEN "empty" ELSE "hit",
                          ![r].queries = Append(@, QueryType(t)),
                          ![r].empty = Len(results) = 0,
                          ![r].via = IF found THEN "search" ELSE "none"]
             /\ pending' = IF found
                           THEN Go(db, registry, pending,
                                   MappingFor(t, result.DabTrackID)).pending
                           ELSE pending
             /\ registry' = IF found
                            THEN Go(db, registry, pending,
                                    MappingFor(t, result.DabTrackID)).registry
                            ELSE registry
    /\ pc' = [pc EXCEPT ![r] = "emit"]
    /\ UNCHANGED <<db, mbLimiter, client, last, again, started, written, cancelled>>

(* ------------------------ goroutines and time ------------------------- *)

\* the history of a column with one more value written to it
Noted(values, v) ==
    IF v = "" \/ (\E i \in 1..Len(values) : values[i] = v) THEN values
    ELSE Append(values, v)

Carried(old, m) ==
    [isrc       |-> Noted(old.isrc, m.ISRC),
     spotify_id |-> Noted(old.spotify_id, m.SpotifyID),
     youtube_id |-> Noted(old.youtube_id, m.YoutubeID)]

\* a goroutine that executes its statement and never returns
RunUpsertLeaks ==
    \E m \in BagToSet(pending) :
       /\ registry' = UpsertMapping(db, registry, m)
       /\ written' = IF db = "nil" THEN written
                     ELSE [written EXCEPT ![m.DabID] = Carried(@, m)]
       /\ UNCHANGED <<db, pending, limiters, mbLimiter, client, pc, cur, res, last,
                      again, started, cancelled>>

\* a started UpsertMapping goroutine executes its statement
RunUpsert ==
    \E m \in BagToSet(pending) :
       /\ pending' = pending (-) SetToBag({m})
       /\ registry' = UpsertMapping(db, registry, m)
       /\ written' = IF db = "nil" THEN written
                     ELSE [written EXCEPT ![m.DabID] = Carried(@, m)]
       /\ UNCHANGED <<db, limiters, mbLimiter, client, pc, cur, res, last, again,
                      started, cancelled>>

\* the statement fails (database locked, I/O error); nobody reads the error
\* the goroutine returns
DropUpsert ==
    \E m \in BagToSet(pending) :
       /\ db # "nil"
       /\ pending' = pending (-) SetToBag({m})
       /\ UNCHANGED <<db, registry, limiters, mbLimiter, client, pc, cur, res,
                      last, again, started, written, cancelled>>

\* limiters that are never refilled
NoRefill == FALSE /\ UNCHANGED <<limiters, mbLimiter>>

\* a refill interval passes while a caller waits in Limiter.Wait: every
\* limiter is back at its burst
Tick ==
    /\ \E r \in Requests :
          \/ pc[r] \in {"auth", "search"} /\ limiters[client[r].Limiter] = 0
          \/ pc[r] = "enrich" /\ mbLimiter = 0
    /\ limiters' = [l \in 1..Len(limiters) |-> Burst]
    /\ mbLimiter' = Burst
    /\ UNCHANGED <<db, registry, pending, client, pc, cur, res, last, again, started,
                   written, cancelled>>

Next ==
    \/ \E r \in Requests : RejectMissingToken(r)
    \/ \E r \in Requests : StartRequest(r)
    \/ \E r \in Requests : ValidateToken(r)
    \/ \E r \in Requests : BeginTrack(r)
    \/ \E r \in Requests : CacheCheck(r)
    \/ \E r \in Requests : Enrich(r)
    \/ \E r \in Requests : Search(r)
    \/ \E r \in Requests : Emit(r)
    \/ \E r \in Requests : Cancel(r)
    \/ \E r \in Requests : Disconnected(r)
    \/ RunUpsert
    \/ DropUpsert
    \/ Tick

Spec == Init /\ [][Next]_vars

(* ------------------ MatchTrack from the search onwards ---------------- *)

\* descriptors as they reach step 3: with a well-formed ISRC, with the ISRC
\* of the README's example, with a lower-case, a short and no ISRC
ScoreTracks ==
    { Track("spotify", "s1", "GBAYE2000674"),
      Track("spotify", "s1", "USUM71921131"),
      Track("", "", "gbaye2000674"),
      Track("", "", "GBAYE20006"),
      Track("youtube", "y1", "") }

\* candidates on both sides of the two thresholds, two of equal score, and
\* of different audio quality
ScoreCands ==
    { Cand(1, 85, 44, 16), Cand(2, 94, 96, 24), Cand(3, 95, 96, 16),
      Cand(4, 95, 44, 24), Cand(5, 84, 192, 24) }

\* what client.Search can return
ScoreResponses ==
    { q \in SeqsUpTo(ScoreCands, MaxResults) :
        \A i, j \in 1..Len(q) : i # j => q[i].ID # q[j].ID }

\* a call of MatchTrack that has reached step 3, and what client.Search
\* will return to it
ScoreCall(track, results, mode) ==
    [input |-> track, t |-> track, mode |-> mode, results |-> results,
     queries |-> << >>]

InitScore ==
    /\ db = "open"
    /\ registry = << >>
    /\ pending = EmptyBag
    /\ limiters = << >>
    /\ mbLimiter = Burst
    /\ client = [r \in Requests |-> NoClient]
    /\ pc = [r \in Requests |-> "search"]
    /\ \E track \in ScoreTracks, results \in ScoreResponses, mode \in Modes :
          cur = [r \in Requests |-> ScoreCall(track, results, mode)]
    /\ res = [r \in Requests |-> NoResult]
    /\ last = [r \in Requests |-> NoLast]
    /\ again = [r \in Requests |-> ""]
    /\ started = 0
    /\ written = [d \in DabIDs |-> [isrc |-> << >>, spotify_id |-> << >>,
                                     youtube_id |-> << >>]]
    /\ cancelled = [r \in Requests |-> ""]

\* steps 3 to 5 of MatchTrack for the results client.Search returns: the
\* query is chosen, the results are scored and the result is returned
Score ==
    /\ \A r \in Requests : pc[r] = "search"
    /\ cur' = [r \in Requests |-> [cur[r] EXCEPT !.queries = <<QueryType(cur[r].t)>>]]
    /\ res' = [r \in Requests |-> Scored(cur[r].t, cur[r].results, cur[r].mode)]
    /\ pc' = [r \in Requests |-> "emit"]
    /\ UNCHANGED <<db, registry, pending, limiters, mbLimiter, client, last, again,
                   started, written, cancelled>>

SpecScore == InitScore /\ [][Score]_vars

(* ---------------------- MatchTrack at its step 1 ---------------------- *)

\* descriptors at step 1, among them Spotify and YouTube descriptors whose
\* metadata came without an id
LookupTracks ==
    Tracks \cup { Track("spotify", "", "GBAYE2000674"), Track("youtube", "", "") }

\* the registries UpsertMapping has written for matches of the Spotify
\* track, of the YouTube video, or of both
LookupRegistries ==
    LET s == MappingFor(Track("spotify", "s1", "GBAYE2000674"), "1")
        y == MappingFor(Track("youtube", "y1", ""), "2")
    IN  { << >>,
          UpsertMapping("open", << >>, s),
          UpsertMapping("open", << >>, y),
          UpsertMapping("open", UpsertMapping("open", << >>, s), y) }

\* every request has just called MatchTrack for a track
InitLookup ==
    /\ db \in {"open", "nil"}
    /\ registry \in LookupRegistries
    /\ db = "nil" => registry = << >>
    /\ pending = EmptyBag
    /\ limiters = [l \in 1..NumRequests |-> Burst]
    /\ mbLimiter = Burst
    /\ client = [r \in Requests |-> [Limiter |-> r, Token |-> r]]
    /\ pc = [r \in Requests |-> "cache"]
    /\ cur \in [Requests -> {Fresh(track) : track \in LookupTracks}]
    /\ res = [r \in Requests |-> NoResult]
    /\ last = [r \in Requests |-> NoLast]
    /\ again = [r \in Requests |-> ""]
    /\ started = MaxWork
    /\ written = [d \in DabIDs |-> [isrc |-> << >>, spotify_id |-> << >>,
                                     youtube_id |-> << >>]]
    /\ cancelled = [r \in Requests |-> ""]

NextLookup == \E r \in Requests : CacheCheck(r)

\* step 1 of MatchTrack for each call
SpecLookup == InitLookup /\ [][NextLookup]_vars

(* ------------------- MatchTrack calls under way ----------------------- *)

\* the registries a call can meet: no row, a row for the Spotify track, a
\* row for the YouTube video
MatchRegistries ==
    { << >>,
      <<Row(TrackMapping("1", "GBAYE2000674", "s1", ""))>>,
      <<Row(TrackMapping("2", "", "", "y1"))>> }

\* every request is in its matching loop and has just called MatchTrack
\* for a track; its client holds a limiter of its own, whose token
\* ValidateToken has taken, and the token of MusicBrainz's limiter is taken
InitMatch ==
    /\ db \in {"open", "nil"}
    /\ registry \in MatchRegistries
    /\ db = "nil" => registry = << >>
    /\ pending = EmptyBag
    /\ limiters = [l \in 1..NumRequests |-> 0]
    /\ mbLimiter = 0
    /\ client = [r \in Requests |-> [Limiter |-> r, Token |-> r]]
    /\ pc = [r \in Requests |-> "cache"]
    /\ cur \in [Requests -> {Fresh(track) : track \in Tracks}]
    /\ res = [r \in Requests |-> NoResult]
    /\ last = [r \in Requests |-> NoLast]
    /\ again = [r \in Requests |-> ""]
    /\ started = MaxWork
    /\ written = [d \in DabIDs |-> [isrc |-> << >>, spotify_id |-> << >>,
                                     youtube_id |-> << >>]]
    /\ cancelled = [r \in Requests |-> ""]

NextMatch ==
    \/ \E r \in Requests : CacheCheck(r)
    \/ \E r \in Requests : Enrich(r)
    \/ \E r \in Requests : Search(r)
    \/ RunUpsert
    \/ DropUpsert
    \/ Tick

\* the scheduling of the calls: time passes, and a MatchTrack call that can
\* take its next step takes it (every lookup and every HTTP request
\* returns, the clients have timeouts; a limiter gives its token to each
\* waiter in turn)
Fairness ==
    /\ WF_vars(Tick)
    /\ \A r \in Requests :
          /\ WF_vars(CacheCheck(r))
          /\ SF_vars(Enrich(r))
          /\ SF_vars(Search(r))

SpecMatch == InitMatch /\ [][NextMatch]_vars /\ Fairness

\* the scheduling of the goroutines: db.Exec returns, with or without an
\* error (UpsertMapping returns at once for a nil handle), so a started
\* goroutine ends
UpsertFairness == WF_vars(RunUpsert \/ DropUpsert)

\* one request has just called MatchTrack for a track while goroutines of
\* earlier matches may still be under way
InitUpserts ==
    /\ db \in {"open", "nil"}
    /\ registry \in MatchRegistries
    /\ db = "nil" => registry = << >>
    /\ pending \in { EmptyBag,
                     SetToBag({TrackMapping("1", "GBAYE2000674", "s1", "")}),
                     SetToBag({TrackMapping("1", "GBAYE2000674", "s1", ""),
                               TrackMapping("2", "USUM71921131", "", "y1")}) }
    /\ limiters = [l \in 1..NumRequests |-> 0]
    /\ mbLimiter = 0
    /\ client = [r \in Requests |-> [Limiter |-> r, Token |-> r]]
    /\ \E a \in Requests, track \in Tracks :
          /\ pc = [r \in Requests |-> IF r = a THEN "cache" ELSE "idle"]
          /\ cur = [r \in Requests |-> IF r = a THEN Fresh(track) ELSE Fresh(NoTrack)]
    /\ res = [r \in Requests |-> NoResult]
    /\ last = [r \in Requests |-> NoLast]
    /\ again = [r \in Requests |-> ""]
    /\ started = MaxWork
    /\ written = [d \in DabIDs |-> [isrc |-> << >>, spotify_id |-> << >>,
                                     youtube_id |-> << >>]]
    /\ cancelled = [r \in Requests |-> ""]

\* a MatchTrack call under way, with the goroutines scheduled
SpecUpserts == InitUpserts /\ [][NextMatch]_vars /\ Fairness /\ UpsertFairness

(* ---------------------- MatchTrack at its step 2 ---------------------- *)

\* the registries step 2 can meet: no row, or a row holding an ISRC
MBRegistries ==
    { << >>, <<Row(TrackMapping("1", "GBAYE2000674", "s1", ""))>> }

\* a call of MatchTrack for a YouTube track without ISRC that has reached
\* step 2, and the outcome its MusicBrainz request will have
MBCall(track, o) ==
    [input |-> track, t |-> track, outcome |-> o, mbISRC |-> "", via |-> "",
     net |-> NoNet]

InitMB ==
    /\ db = "open"
    /\ registry \in MBRegistries
    /\ pending = EmptyBag
    /\ limiters = << >>
    /\ mbLimiter = Burst
    /\ client = [r \in Requests |-> NoClient]
    /\ pc = [r \in Requests |-> "enrich"]
    /\ \E o \in MBOutcomes :
          cur = [r \in Requests |-> MBCall(Track("youtube", "y1", ""), o)]
    /\ res = [r \in Requests |-> NoResult]
    /\ last = [r \in Requests |-> NoLast]
    /\ again = [r \in Requests |-> ""]
    /\ started = 0
    /\ written = [d \in DabIDs |-> [isrc |-> << >>, spotify_id |-> << >>,
                                     youtube_id |-> << >>]]
    /\ cancelled = [r \in Requests |-> ""]

\* the result of step 2 for the call c: the call after it, where it goes
\* and what it returns
AfterStep2(c, reg) ==
    LET mbISRC == GetISRCFromMetadata(c.outcome)
        t      == [c.t EXCEPT !.ISRC = IF mbISRC # "" THEN mbISRC ELSE @]
        g      == GetDabIDFromSource("open", reg, "isrc", mbISRC, FALSE)
        hit    == Step2(g, mbISRC) = "return"
    IN  [cur |-> [c EXCEPT !.t = t, !.mbISRC = mbISRC,
                           !.via = IF hit THEN "isrc_cache" ELSE "",
                           !.net.mb = @ + 1],
         pc  |-> IF hit THEN "emit" ELSE "search",
         res |-> IF hit THEN CacheHit(t, g.id) ELSE NoResult]

\* step 2 of MatchTrack: the MusicBrainz request has its outcome,
\* GetISRCFromMetadata returns, and MatchTrack returns the cached id or
\* goes on to the search
EnrichMB ==
    /\ \A r \in Requests : pc[r] = "enrich"
    /\ mbLimiter > 0
    /\ mbLimiter' = mbLimiter - 1
    /\ cur' = [r \in Requests |-> AfterStep2(cur[r], registry).cur]
    /\ pc' = [r \in Requests |-> AfterStep2(cur[r], registry).pc]
    /\ res' = [r \in Requests |-> AfterStep2(cur[r], registry).res]
    /\ UNCHANGED <<db, registry, pending, limiters, client, last, again, started,
                   written, cancelled>>

SpecMB == InitMB /\ [][EnrichMB]_vars

(* ------------------- the matching loops of a batch -------------------- *)

\* a row of a CSV file without title, artist and Spotify URI
BlankRow == NoTrack

\* the tracks sp.Parse and ParseYouTube hand to the loop of handleConvert,
\* and the rows ParseCSV goes through
URLTracks == { Track("spotify", "s1", "GBAYE2000674"), Track("youtube", "y1", "") }

CSVRows == { Track("", "", "GBAYE2000674"), Track("", "", "USUM71921131"), BlankRow }

\* a request that has reached its matching loop: the loop of handleConvert
\* for a URL, the loop of ParseCSV for a CSV file.  i is the loop index,
\* results the slice of results, events the events sent so far.
Batch(path, tracks) ==
    [path |-> path, tracks |-> tracks, i |-> 0, results |-> << >>, events |-> << >>]

Batches ==
    { Batch("url", tracks) : tracks \in SeqsUpTo(URLTracks, MaxTracks) \ {<< >>} }
    \cup { Batch("csv", rows) : rows \in SeqsUpTo(CSVRows, MaxTracks) \ {<< >>} }

InitBatch ==
    /\ db = "open"
    /\ registry = << >>
    /\ pending = EmptyBag
    /\ limiters = << >>
    /\ mbLimiter = Burst
    /\ client = [r \in Requests |-> NoClient]
    /\ \E a \in Requests, b \in Batches :
          /\ pc = [r \in Requests |-> IF r = a THEN "ready" ELSE "idle"]
          /\ cur = [r \in Requests |-> IF r = a THEN b ELSE Batch("", << >>)]
    /\ res = [r \in Requests |-> NoResult]
    /\ last = [r \in Requests |-> NoLast]
    /\ again = [r \in Requests |-> ""]
    /\ started = 0
    /\ written = [d \in DabIDs |-> [isrc |-> << >>, spotify_id |-> << >>,
                                     youtube_id |-> << >>]]
    /\ cancelled = [r \in Requests |-> ""]

\* the next iteration of `for i, t := range tracks` in handleConvert: the
\* context is not done, and MatchTrack is called for tracks[i]
LoopURL(r) ==
    /\ pc[r] = "ready"
    /\ cur[r].path = "url"
    /\ cancelled[r] = ""
    /\ cur[r].i < Len(cur[r].tracks)
    /\ cur' = [cur EXCEPT ![r].i = @ + 1]
    /\ pc' = [pc EXCEPT ![r] = "search"]
    /\ UNCHANGED <<db, registry, pending, limiters, mbLimiter, client, res, last,
                   again, started, written, cancelled>>

\* the next iteration of `for i, record := range rows` in ParseCSV: a row
\* without title, artist and source id is skipped, for any other row
\* MatchTrack is called
LoopCSV(r) ==
    /\ pc[r] = "ready"
    /\ cur[r].path = "csv"
    /\ cur[r].i < Len(cur[r].tracks)
    /\ cur' = [cur EXCEPT ![r].i = @ + 1]
    /\ pc' = [pc EXCEPT ![r] = IF cur[r].tracks[cur[r].i + 1] = BlankRow
                                THEN "ready" ELSE "search"]
    /\ UNCHANGED <<db, registry, pending, limiters, mbLimiter, client, res, last,
                   again, started, written, cancelled>>

\* what MatchTrack can return for the track t: a cached id (the registry
\* is asked for Spotify and YouTube tracks), or the result of scoring what
\* the search returned; a YouTube track without ISRC may have got one from
\* MusicBrainz
MatchResults(t) ==
    LET ts == IF t.Type = "youtube" /\ t.ISRC = ""
              THEN { [t EXCEPT !.ISRC = mbISRC] : mbISRC \in MBAnswers }
              ELSE {t}
    IN  { CacheHit(u, "1") : u \in {v \in ts : v.Type # ""} }
        \cup { Scored(u, results, "lenient") : u \in ts, results \in Responses }

\* a slice that takes a new result at its front
prepend(results, result) == <<result>> \o results

\* results = append(results, *res)
append(results, result) == Append(results, result)

\* the "processing" event of the track at loop index i
Processing(i, total, result) ==
    [status |-> "processing", index |-> i, total |-> total, result |-> result]

\* the "complete" event with the results
Complete(results) == [status |-> "complete", tracks |-> results]

\* MatchTrack returns: the result is appended to results and sent as a
\* processing event (by the loop of handleConvert, or by ParseCSV and its
\* onProgress callback); a fresh match has started its upsert goroutine
Returned(r) ==
    /\ pc[r] = "search"
    /\ cur[r].path # ""
    /\ \E result \in MatchResults(cur[r].tracks[cur[r].i]) :
          /\ res' = [res EXCEPT ![r] = result]
          /\ cur' = [cur EXCEPT
                       ![r].results = append(@, result),
                       ![r].events = Append(@, Processing(cur[r].i, Len(cur[r].tracks),
                                                          result))]
          /\ pending' = IF result.RawTrack # NoCand
                        THEN Go(db, registry, pending,
                                MappingFor(result.Track, result.DabTrackID)).pending
                        ELSE pending
    /\ pc' = [pc EXCEPT ![r] = "ready"]
    /\ UNCHANGED <<db, registry, limiters, mbLimiter, client, last, again, started,
                   written, cancelled>>

\* the loop is over: handleConvert sends the complete event with the
\* results and returns.  In the URL path a closed context is seen first,
\* at the last check of the loop, only while tracks remain.
Finish(r) ==
    /\ pc[r] = "ready"
    /\ cur[r].path # ""
    /\ cur[r].i = Len(cur[r].tracks)
    /\ cur' = [cur EXCEPT ![r].events = Append(@, Complete(cur[r].results))]
    /\ pc' = [pc EXCEPT ![r] = "done"]
    /\ UNCHANGED <<db, registry, pending, limiters, mbLimiter, client, res, last,
                   again, started, written, cancelled>>

\* the loop of handleConvert finds ctx.Done() closed before a track
Abort(r) ==
    /\ cur[r].path = "url"
    /\ cur[r].i < Len(cur[r].tracks)
    /\ Disconnected(r)

NextBatch ==
    \/ \E r \in Requests : LoopURL(r)
    \/ \E r \in Requests : LoopCSV(r)
    \/ \E r \in Requests : Returned(r)
    \/ \E r \in Requests : Finish(r)
    \/ \E r \in Requests : Cancel(r)
    \/ \E r \in Requests : Abort(r)
    \/ RunUpsert
    \/ DropUpsert

SpecBatch == InitBatch /\ [][NextBatch]_vars

(* ------------------- the event stream of a request -------------------- *)

\* the events handleConvert sends besides processing and complete
Info == [status |-> "info"]

Extracting == [status |-> "extracting"]

Error == [status |-> "error"]

\* a request whose token is validated and whose stream is set up (setupSSE),
\* before its first event; for a URL the tracks are extracted and there is
\* at least one, for a CSV upload the file is still to be read
InitStream ==
    /\ db = "open"
    /\ registry = << >>
    /\ pending = EmptyBag
    /\ limiters = << >>
    /\ mbLimiter = Burst
    /\ client = [r \in Requests |-> NoClient]
    /\ \E a \in Requests, b \in Batches :
          /\ pc = [r \in Requests |-> IF r = a THEN "sse" ELSE "idle"]
          /\ cur = [r \in Requests |-> IF r = a THEN b ELSE Batch("", << >>)]
    /\ res = [r \in Requests |-> NoResult]
    /\ last = [r \in Requests |-> NoLast]
    /\ again = [r \in Requests |-> ""]
    /\ started = 0
    /\ written = [d \in DabIDs |-> [isrc |-> << >>, spotify_id |-> << >>,
                                     youtube_id |-> << >>]]
    /\ cancelled = [r \in Requests |-> ""]

\* the first event of the stream: "info" before ParseCSV, "extracting"
\* before the loop over the tracks of a URL
OpenStream(r) ==
    /\ pc[r] = "sse"
    /\ cur' = [cur EXCEPT ![r].events =
                  Append(@, IF cur[r].path = "csv" THEN Info ELSE Extracting)]
    /\ pc' = [pc EXCEPT ![r] = IF cur[r].path = "csv" THEN "parse" ELSE "ready"]
    /\ UNCHANGED <<db, registry, pending, limiters, mbLimiter, client, res, last,
                   again, started, written, cancelled>>

\* a handleConvert that sends the error event of a failed ParseCSV and goes
\* on to the rows
ReadCSVGoesOn(r) ==
    /\ pc[r] = "parse"
    /\ \E ok \in BOOLEAN :
          cur' = [cur EXCEPT ![r].events = IF ok THEN @ ELSE Append(@, Error)]
    /\ pc' = [pc EXCEPT ![r] = "ready"]
    /\ UNCHANGED <<db, registry, pending, limiters, mbLimiter, client, res, last,
                   again, started, written, cancelled>>

\* ParseCSV up to its loop: the form file is read and its header mapped, or
\* ParseCSV returns an error, handleConvert sends the error event and
\* returns
ReadCSV(r) ==
    /\ pc[r] = "parse"
    /\ \E ok \in BOOLEAN :
          /\ cur' = [cur EXCEPT ![r].events = IF ok THEN @ ELSE Append(@, Error)]
          /\ pc' = [pc EXCEPT ![r] = IF ok THEN "ready" ELSE "failed"]
    /\ UNCHANGED <<db, registry, pending, limiters, mbLimiter, client, res, last,
                   again, started, written, cancelled>>

NextStream ==
    \/ \E r \in Requests : OpenStream(r)
    \/ \E r \in Requests : ReadCSV(r)
    \/ NextBatch

SpecStream == InitStream /\ [][NextStream]_vars

(* ------------------- handleConvert from its first line ---------------- *)

\* the X-DAB-Token header of a request: absent, a token the secondary
\* catalog does not know, a token of a session
Tokens == {"", "bad", "good"}

\* a POST request that has reached handleConvert: its token, what its body
\* holds, the userID and the locals of the loops, the status of the HTTP
\* error it was answered with (0: none) and the events sent
Conversion(token, path, tracks) ==
    [token |-> token, userID |-> "", status |-> 0, path |-> path, tracks |-> tracks,
     i |-> 0, results |-> << >>, events |-> << >>]

InitConvert ==
    /\ db = "open"
    /\ registry = << >>
    /\ pending = EmptyBag
    /\ limiters = << >>
    /\ mbLimiter = Burst
    /\ client = [r \in Requests |-> NoClient]
    /\ \E a \in Requests, token \in Tokens, b \in Batches :
          /\ pc = [r \in Requests |-> IF r = a THEN "arrived" ELSE "idle"]
          /\ cur = [r \in Requests |-> IF r = a THEN Conversion(token, b.path, b.tracks)
                                       ELSE Batch("", << >>)]
    /\ res = [r \in Requests |-> NoResult]
    /\ last = [r \in Requests |-> NoLast]
    /\ again = [r \in Requests |-> ""]
    /\ started = 0
    /\ written = [d \in DabIDs |-> [isrc |-> << >>, spotify_id |-> << >>,
                                     youtube_id |-> << >>]]
    /\ cancelled = [r \in Requests |-> ""]

\* the header is read: without a token the answer is 401 and handleConvert
\* returns, with one GetClient makes the client
ReadToken(r) ==
    /\ pc[r] = "arrived"
    /\ IF cur[r].token = ""
       THEN /\ cur' = [cur EXCEPT ![r].status = 401]
            /\ pc' = [pc EXCEPT ![r] = "rejected"]
            /\ UNCHANGED <<client, limiters>>
       ELSE /\ client' = NewClient(client, r, GetClient(limiters))
            /\ limiters' = Append(limiters, Burst)
            /\ pc' = [pc EXCEPT ![r] = "auth"]
            /\ UNCHANGED cur
    /\ UNCHANGED <<db, registry, pending, mbLimiter, res, last, again, started,
                   written, cancelled>>

\* what GET /auth/me can give ValidateToken: a transport error, a body
\* without user, a body with the user of the session
AuthAnswers(token) ==
    IF token = "good" THEN {"err", "nouser", "user"} ELSE {"err", "nouser"}

\* a handleConvert that answers a failed validation with 401 and does not
\* return
AuthenticateGoesOn(r) ==
    /\ pc[r] = "auth"
    /\ limiters[client[r].Limiter] > 0
    /\ limiters' = Take(client[r].Limiter)
    /\ \E answer \in AuthAnswers(cur[r].token) :
          cur' = [cur EXCEPT ![r].userID = IF answer = "user" THEN "u" ELSE "",
                             ![r].status = IF answer = "user" THEN 0 ELSE 401]
    /\ pc' = [pc EXCEPT ![r] = "request"]
    /\ UNCHANGED <<db, registry, pending, mbLimiter, client, res, last, again,
                   started, written, cancelled>>

\* client.ValidateToken: an error is answered with 401 and handleConvert
\* returns, else the userID is kept
Authenticate(r) ==
    /\ pc[r] = "auth"
    /\ limiters[client[r].Limiter] > 0
    /\ limiters' = Take(client[r].Limiter)
    /\ \E answer \in AuthAnswers(cur[r].token) :
          /\ cur' = [cur EXCEPT ![r].userID = IF answer = "user" THEN "u" ELSE "",
                                ![r].status = IF answer = "user" THEN 0 ELSE 401]
          /\ pc' = [pc EXCEPT ![r] = IF answer = "user" THEN "request" ELSE "rejected"]
    /\ UNCHANGED <<db, registry, pending, mbLimiter, client, res, last, again,
                   started, written, cancelled>>

\* the request is parsed and, for a URL, its tracks are extracted: a
\* failure is answered with an HTTP error (400; 500 for a failed
\* extraction, 500 when the writer cannot stream), else the stream is set up
ParseRequest(r) ==
    /\ pc[r] = "request"
    /\ \E status \in {0, 400, 500} :
          /\ cur' = [cur EXCEPT ![r].status = status]
          /\ pc' = [pc EXCEPT ![r] = IF status = 0 THEN "sse" ELSE "refused"]
    /\ UNCHANGED <<db, registry, pending, limiters, mbLimiter, client, res, last,
                   again, started, written, cancelled>>

NextConvert ==
    \/ \E r \in Requests : ReadToken(r)
    \/ \E r \in Requests : Authenticate(r)
    \/ \E r \in Requests : ParseRequest(r)
    \/ NextStream

SpecConvert == InitConvert /\ [][NextConvert]_vars

(* ------------------------------ claims -------------------------------- *)

\* the registry check of request r is the step being taken
ChecksCache(r) == pc[r] = "cache" /\ pc'[r] # "cache"

\* the key of the descriptor of request r is held by some row
KeyHeld(r) ==
    /\ cur[r].t.Type \in SourceTypes
    /\ Matching(registry, cur[r].t.Type, cur[r].t.SourceID) # {}

\* MatchTrack of request r returns FOUND with id and has issued no call
ReturnsCached(r, id) ==
    /\ pc'[r] = "emit"
    /\ res'[r].MatchStatus = "FOUND"
    /\ res'[r].DabTrackID = id
    /\ cur'[r].net = NoNet

\* C1 as stated: whenever MatchTrack checks the registry for a descriptor
\* whose (Type, SourceID) is held by a row, it returns FOUND with the dab_id
\* of a row holding the key and issues no network call
C1_CachePrecedence ==
    [][\A r \in Requests :
          ChecksCache(r) /\ KeyHeld(r) =>
             \E i \in Matching(registry, cur[r].t.Type, cur[r].t.SourceID) :
                ReturnsCached(r, registry[i].dab_id)]_vars

\* C1, amended: whenever MatchTrack checks the registry for a descriptor
\* whose (Type, SourceID) is held by a row and the lookup returns no error,
\* it returns FOUND with the dab_id of the oldest row holding the key and
\* issues no network call
C1_CachePrecedenceOnSuccess ==
    [][\A r \in Requests :
          ChecksCache(r) /\ KeyHeld(r) /\ ~cur'[r].lookupErr =>
             ReturnsCached(r,
                registry[Min(Matching(registry, cur[r].t.Type, cur[r].t.SourceID))].dab_id)]_vars

\* a resolution has returned from the registry check although two rows
\* held its key
C1_Witness ==
    \E r \in Requests :
       /\ pc[r] = "emit"
       /\ cur[r].via = "cache"
       /\ res[r].MatchStatus = "FOUND"
       /\ cur[r].net = NoNet
       /\ Cardinality(Matching(registry, cur[r].t.Type, cur[r].t.SourceID)) > 1

\* MatchTrack of request r has returned a result taken from the registry
CacheServed(r) == pc[r] = "emit" /\ cur[r].via \in {"cache", "isrc_cache"}

\* C2 as stated: a result produced by a cache hit, by source id or by the
\* enriched ISRC, has confidence 1.0 and no candidate
C2_CacheHitConfidence ==
    \A r \in Requests :
       CacheServed(r) =>
          res[r].Confidence = PerfectScore /\ res[r].RawTrack = NoCand

\* C3 as stated: when a request resolves the same descriptor twice in a row
\* and the first result was FOUND, the second result has the same
\* DabTrackID and was reached without a network call
C3_IdempotentReResolution ==
    \A r \in Requests :
       pc[r] = "emit" /\ again[r] # "" =>
          res[r].DabTrackID = again[r] /\ cur[r].net = NoNet

\* C3, amended: when a request resolves the same descriptor twice in a row
\* and the first result was FOUND with id T, the second returns T without a
\* network call provided that, at its registry check, the lookup returns no
\* error and the oldest row holding the descriptor's (Type, SourceID) is
\* the row of T
C3_IdempotentOnceStored ==
    [][\A r \in Requests :
          /\ ChecksCache(r)
          /\ again[r] # ""
          /\ KeyHeld(r)
          /\ registry[Min(Matching(registry, cur[r].t.Type, cur[r].t.SourceID))].dab_id
                = again[r]
          /\ ~cur'[r].lookupErr
          => ReturnsCached(r, again[r])]_vars

\* the second resolution of a YouTube descriptor in a row has returned
\* the id of the first from the registry, without a network call
C3_Witness ==
    \E r \in Requests :
       /\ pc[r] = "emit"
       /\ again[r] # ""
       /\ cur[r].input.Type = "youtube"
       /\ cur[r].via = "cache"
       /\ res[r].DabTrackID = again[r]
       /\ cur[r].net = NoNet

Columns == {"isrc", "spotify_id", "youtube_id"}

\* C4: a column of a row that is non-empty stays non-empty in every later
\* state of the registry, whatever upsert is executed, and the row stays
C4_MergeNeverErases ==
    [][\A i \in 1..Len(registry) :
          /\ i <= Len(registry')
          /\ registry'[i].dab_id = registry[i].dab_id
          /\ \A c \in Columns : registry[i][c] # "" => registry'[i][c] # ""]_vars

\* two partial writes, one with an empty youtube_id and one with an empty
\* spotify_id, have been executed on one row, and the row holds both ids
C4_Witness ==
    \E i \in 1..Len(registry) :
       /\ written[registry[i].dab_id].spotify_id # << >>
       /\ written[registry[i].dab_id].youtube_id # << >>
       /\ registry[i].spotify_id # ""
       /\ registry[i].youtube_id # ""

First(values) == IF values = << >> THEN "" ELSE values[1]

\* C5: every column of every row equals the first non-empty value an
\* executed upsert for the row's dab_id carried in that column
C5_FirstWriterWins ==
    \A i \in 1..Len(registry) :
       \A c \in Columns : registry[i][c] = First(written[registry[i].dab_id][c])

\* two different ISRCs have been written to one row, which holds the first
C5_Witness ==
    \E i \in 1..Len(registry) :
       /\ Len(written[registry[i].dab_id].isrc) > 1
       /\ registry[i].isrc = written[registry[i].dab_id].isrc[1]

\* what a successful lookup of (sourceType, key) returns from reg
Lookup(reg, sourceType, key) ==
    GetDabIDFromSource("open", reg, sourceType, key, FALSE).id

\* the non-empty keys the rows of reg hold in the column of sourceType
KeysOf(reg, sourceType) ==
    { Column(reg[i], sourceType) : i \in 1..Len(reg) } \ {""}

\* C6 as stated: once a lookup of (sourceType, key) returns a dab_id, every
\* later lookup of that key returns the same dab_id
C6_LookupStable ==
    [][\A sourceType \in SourceTypes :
          \A key \in KeysOf(registry, sourceType) :
             Lookup(registry', sourceType, key) = Lookup(registry, sourceType, key)]_vars

\* C7: every column in which an executed upsert for a dab_id carried a
\* non-empty value is non-empty in the row of that dab_id, in whatever order
\* the upsert goroutines of concurrent resolutions ran
C7_NoLostUpdate ==
    \A d \in DabIDs :
       \A c \in Columns :
          written[d][c] # << >> => HasRow(registry, d) /\ RowOf(registry, d)[c] # ""

\* two requests have resolved different descriptors to one dab_id at the
\* same time, both upserts have run, and the row holds what each carried
C7_Witness ==
    \E r1, r2 \in Requests :
       /\ r1 # r2
       /\ pc[r1] = "emit" /\ pc[r2] = "emit"
       /\ cur[r1].via = "search" /\ cur[r2].via = "search"
       /\ res[r1].DabTrackID = res[r2].DabTrackID
       /\ cur[r1].input.Type = "spotify" /\ cur[r2].input.Type = "youtube"
       /\ pending = EmptyBag
       /\ HasRow(registry, res[r1].DabTrackID)
       /\ RowOf(registry, res[r1].DabTrackID).spotify_id = cur[r1].input.SourceID
       /\ RowOf(registry, res[r1].DabTrackID).youtube_id = cur[r2].input.SourceID

\* what MatchTrack does after a miss of its first registry check
AfterMiss(t) == IF t.Type = "youtube" /\ t.ISRC = "" THEN "enrich" ELSE "search"

\* the error of the lookup request r makes in the step being taken: the
\* store is nil, the source type is unsupported, the query fails or no row
\* holds the key
LookupFails(r, sourceType, sourceID) ==
    GetDabIDFromSource(db, registry, sourceType, sourceID, cur'[r].lookupErr).err

\* C8: a nil store, or a registry lookup that returns an error, does not end
\* the resolution: after the first check MatchTrack goes on as after a miss,
\* after the check by ISRC it goes on to search, a nil store never holds a
\* row, and every result MatchTrack returns is FOUND or NOT_FOUND
C8_RegistryFailuresAreMisses ==
    [][\A r \in Requests :
          /\ ChecksCache(r) /\ LookupFails(r, cur[r].t.Type, cur[r].t.SourceID)
                => pc'[r] = AfterMiss(cur[r].t) /\ res'[r] = NoResult
          /\ pc[r] = "enrich" /\ pc'[r] # "enrich"
                /\ LookupFails(r, "isrc", cur'[r].t.ISRC)
                => pc'[r] = "search" /\ res'[r] = NoResult
          /\ db = "nil" => registry' = << >>
          /\ pc'[r] = "emit" => res'[r].MatchStatus \in {"FOUND", "NOT_FOUND"}]_vars

\* a lookup by source id failed although a row held the key, and MatchTrack
\* has searched and returned FOUND
C8_Witness ==
    \E r \in Requests :
       /\ pc[r] = "emit"
       /\ cur[r].lookupErr
       /\ cur[r].input.Type = "spotify"
       /\ cur[r].via = "search"
       /\ res[r].MatchStatus = "FOUND"
       /\ cur[r].net.qobuz = 1

\* C9: in every call of Search, searchDab is called exactly when searchQobuz
\* returned an error or no tracks; when Qobuz returned tracks, DAB is not
\* called and the tracks of Qobuz are what Search returns
C9_QobuzFirst ==
    \A r \in Requests :
       pc[r] = "emit" /\ cur[r].net.qobuz > 0 =>
          /\ cur[r].net.qobuz = 1
          /\ cur[r].net.dab = IF cur[r].qobuz \in {"err", "empty"} THEN 1 ELSE 0
          /\ cur[r].from = IF cur[r].qobuz = "hit" THEN "qobuz" ELSE "dab"

\* Qobuz failed, DAB was searched once and its candidate was accepted
C9_Witness ==
    \E r \in Requests :
       /\ pc[r] = "emit"
       /\ cur[r].qobuz = "err"
       /\ cur[r].from = "dab"
       /\ cur[r].net.dab = 1
       /\ res[r].MatchStatus = "FOUND"

\* tokens taken from the limiters since the last refill
RECURSIVE Drawn(_)
Drawn(ls) == IF ls = << >> THEN 0 ELSE (Burst - Head(ls)) + Drawn(Tail(ls))

\* C10 as stated: all requests draw their DAB tokens from one bucket of
\* burst 1: the clients of any two requests hold the same limiter, and
\* between two refills no more DAB calls are let through than the burst
C10_SharedLimiter ==
    /\ \A r1, r2 \in Requests :
          client[r1] # NoClient /\ client[r2] # NoClient
             => client[r1].Limiter = client[r2].Limiter
    /\ Drawn(limiters) <= Burst

\* the step takes exactly one token from the limiter of request r's client
TakesDabToken(r) ==
    /\ limiters[client[r].Limiter] > 0
    /\ limiters' = [limiters EXCEPT ![client[r].Limiter] = @ - 1]

\* C11: every step in which a request calls DAB (token validation or
\* searchDab) takes one token from its client's limiter, every step in which
\* it calls MusicBrainz takes one token from mbLimiter, and a step in which
\* it calls Qobuz only takes no token
C11_CallsTakeTokens ==
    [][\A r \in Requests :
          /\ pc[r] = "auth" /\ pc'[r] # "auth" => TakesDabToken(r)
          /\ cur'[r].net.dab > cur[r].net.dab => TakesDabToken(r)
          /\ cur'[r].net.mb > cur[r].net.mb
                => mbLimiter > 0 /\ mbLimiter' = mbLimiter - 1
          /\ cur'[r].net.qobuz > cur[r].net.qobuz /\ cur'[r].net.dab = cur[r].net.dab
                => limiters' = limiters /\ mbLimiter' = mbLimiter]_vars

\* a resolution has called MusicBrainz on the token of mbLimiter and then
\* Qobuz while its client's limiter was empty
C11_Witness ==
    \E r \in Requests :
       /\ pc[r] = "emit"
       /\ cur[r].net = [mb |-> 1, qobuz |-> 1, dab |-> 0]
       /\ mbLimiter = 0
       /\ limiters[client[r].Limiter] = 0

\* C12 as stated: when the caller has disconnected while request r was
\* waiting for a limiter token, the call r was waiting to make is not made:
\* no MusicBrainz request after a wait on mbLimiter, no token validation
\* after a wait in Client.Do
C12_WaitHonorsCancellation ==
    [][\A r \in Requests :
          cancelled[r] = "waiting" =>
             /\ pc[r] = "enrich" => cur'[r].net.mb = cur[r].net.mb
             /\ pc[r] = "auth" => pc'[r] = "auth"]_vars

\* the searches of kind k that the call of r has made
Searches(r, k) == {i \in 1..Len(cur[r].queries) : cur[r].queries[i] = k}

\* C16 as stated: the call goes from the exact search on to the fuzzy
\* search, so a search by ISRC that returns nothing is followed by a search
\* by artist and title, and NOT_FOUND is returned only after that one
C16_ExactThenFuzzy ==
    \A r \in Requests :
       pc[r] = "emit" /\ res[r].MatchStatus = "NOT_FOUND" =>
          Searches(r, "text") # {}

\* C17 as stated: when the search by artist and title returns nothing,
\* exactly one more search, with the title as given, is made, and NOT_FOUND
\* is returned only when both are empty
C17_RetryUncleaned ==
    \A r \in Requests :
       pc[r] = "emit" /\ cur[r].empty /\ Searches(r, "isrc") = {} =>
          Cardinality(Searches(r, "text")) = 2

\* MatchTrack of request r takes its step 2
Enriches(r) == pc[r] = "enrich" /\ pc'[r] # "enrich"

\* C20: MusicBrainz is asked for an ISRC only for a YouTube descriptor
\* without ISRC; step 2 comes before every search of the call; and when
\* MusicBrainz gives an ISRC whose lookup in the registry returns a dab_id,
\* MatchTrack returns FOUND with that dab_id and makes no catalog search
C20_EnrichThenISRCCache ==
    [][\A r \in Requests :
          /\ pc'[r] = "enrich" \/ cur'[r].net.mb > 0 =>
                cur'[r].input.Type = "youtube" /\ cur'[r].input.ISRC = ""
          /\ Enriches(r) =>
                cur[r].queries = << >> /\ cur[r].net.qobuz = 0 /\ cur[r].net.dab = 0
          /\ Enriches(r) /\ cur'[r].t.ISRC # ""
                /\ ~LookupFails(r, "isrc", cur'[r].t.ISRC) =>
                /\ pc'[r] = "emit"
                /\ res'[r].MatchStatus = "FOUND"
                /\ res'[r].DabTrackID = Lookup(registry, "isrc", cur'[r].t.ISRC)
                /\ cur'[r].queries = << >>
                /\ cur'[r].net.qobuz = 0 /\ cur'[r].net.dab = 0]_vars

\* a YouTube track without ISRC got one from MusicBrainz, a row held it,
\* and MatchTrack has returned the row's dab_id without a search
C20_Witness ==
    \E r \in Requests :
       /\ pc[r] = "emit"
       /\ cur[r].input.Type = "youtube"
       /\ cur[r].t.ISRC # ""
       /\ cur[r].via = "isrc_cache"
       /\ res[r].MatchStatus = "FOUND"
       /\ res[r].DabTrackID # ""
       /\ cur[r].net.mb = 1
       /\ cur[r].queries = << >>

\* MatchTrack of request r returns in the step
Returns(r) == pc[r] # "emit" /\ pc'[r] = "emit"

\* the mapping C23 describes for the result MatchTrack of r returns
Scheduled(r) ==
    [DabID     |-> res'[r].DabTrackID,
     ISRC      |-> cur'[r].t.ISRC,
     SpotifyID |-> IF cur'[r].t.Type = "spotify" THEN cur'[r].t.SourceID ELSE "",
     YoutubeID |-> IF cur'[r].t.Type = "youtube" THEN cur'[r].t.SourceID ELSE ""]

\* C23: when MatchTrack returns FOUND after a search, exactly one
\* UpsertMapping goroutine is started, for the id of the winning candidate
\* with the ISRC of the descriptor, its source id as spotify_id only for a
\* Spotify track and as youtube_id only for a YouTube track; when it
\* returns a cached id or NOT_FOUND none is started
C23_UpsertScheduledOnce ==
    [][\A r \in Requests :
          Returns(r) =>
             IF res'[r].MatchStatus = "FOUND" /\ cur'[r].net.qobuz > 0
             THEN /\ res'[r].DabTrackID = ToString(res'[r].RawTrack.ID)
                  /\ pending' = pending (+) SetToBag({Scheduled(r)})
             ELSE pending' = pending]_vars

\* a YouTube track was matched by a search, and the goroutine for its
\* mapping, with the youtube_id and no spotify_id, has been started
C23_Witness ==
    \E r \in Requests :
       /\ pc[r] = "emit"
       /\ cur[r].via = "search"
       /\ cur[r].t.Type = "youtube"
       /\ BagIn(TrackMapping(res[r].DabTrackID, cur[r].t.ISRC, "", cur[r].t.SourceID),
                pending)

\* a started UpsertMapping goroutine ends in the step, by executing its
\* statement or by failing
UpsertEnds == BagCardinality(pending') < BagCardinality(pending)

\* C24: MatchTrack returns its FOUND result with the goroutine for the
\* mapping started and the registry not yet written, and no goroutine that
\* runs or fails afterwards changes a returned result or where a request
\* stands
C24_ResultDoesNotWait ==
    [][/\ \A r \in Requests :
             Returns(r) /\ res'[r].MatchStatus = "FOUND" /\ cur'[r].net.qobuz > 0 =>
                /\ registry' = registry
                /\ BagIn(Scheduled(r), pending')
       /\ UpsertEnds => res' = res /\ pc' = pc /\ cur' = cur /\ last' = last]_vars

\* the result of a search has been sent and the handler is at the next
\* track while the goroutine for its mapping has not run and the registry
\* has no row for it
C24_Witness ==
    \E r \in Requests :
       /\ pc[r] = "ready"
       /\ last[r].id # ""
       /\ ~HasRow(registry, last[r].id)
       /\ db = "open"
       /\ \E m \in BagToSet(pending) : m.DabID = last[r].id

\* the cache check of the call of r found no row for the descriptor's key,
\* without an error, and the call has searched and returned
SearchedAfterMiss(r) ==
    /\ pc[r] = "emit"
    /\ cur[r].net.qobuz > 0
    /\ cur[r].net.mb = 0
    /\ ~cur[r].lookupErr

\* C25 as stated: a call whose cache check came before the write of an
\* earlier result makes one search and no more, and whenever it returns
\* FOUND while the registry holds a row for the descriptor's key, the
\* returned id is the one a lookup of that key gives
C25_BoundedStaleness ==
    \A r \in Requests :
       SearchedAfterMiss(r) =>
          /\ Len(cur[r].queries) = 1
          /\ res[r].MatchStatus = "FOUND" /\ KeyHeld(r) =>
                res[r].DabTrackID = Lookup(registry, cur[r].t.Type, cur[r].t.SourceID)

\* request r is inside MatchTrack
InMatchTrack(r) == pc[r] \in {"cache", "enrich", "search"}

\* what C26 says of a returned result
WellFormedResult(r) ==
    /\ res[r] # NoResult
    /\ res[r].MatchStatus \in {"FOUND", "NOT_FOUND"}
    /\ res[r].DabTrackID # "" <=> res[r].MatchStatus = "FOUND"
    /\ res[r].RawTrack # NoCand =>
          /\ res[r].MatchStatus = "FOUND"
          /\ cur[r].via = "search"
          /\ cur[r].net.qobuz > 0

\* C26: every call of MatchTrack returns, whatever the registry lookups,
\* MusicBrainz and the searches do, and what it returns is a result with
\* status FOUND or NOT_FOUND, with an id exactly when FOUND and with a
\* candidate only when the id comes from a search and not from the registry
C26_AlwaysAResult ==
    /\ [](\A r \in Requests : pc[r] = "emit" => WellFormedResult(r))
    /\ \A r \in Requests : InMatchTrack(r) ~> pc[r] = "emit"

\* a call whose registry lookup failed, for which Qobuz failed and DAB
\* gave nothing, has returned NOT_FOUND
C26_Witness ==
    \E r \in Requests :
       /\ pc[r] = "emit"
       /\ cur[r].lookupErr
       /\ cur[r].qobuz = "err"
       /\ cur[r].empty
       /\ res[r].MatchStatus = "NOT_FOUND"
       /\ res[r].DabTrackID = ""

\* the search of the call of r got nothing from either catalog, one or
\* both of them having failed
SearchFailed(r) ==
    /\ cur[r].qobuz \in {"err", "empty"}
    /\ cur[r].dab \in {"err", "empty"}
    /\ "err" \in {cur[r].qobuz, cur[r].dab}

\* C27: a failed request to Qobuz counts as no tracks from Qobuz, so that
\* DAB is asked, and a failed request to DAB counts as no tracks from DAB:
\* when neither gives a track MatchTrack returns NOT_FOUND, and
\* handleConvert, having sent that result, is at the top of its loop for
\* the next track
C27_ErrorsAreNoResults ==
    [][\A r \in Requests :
          /\ Returns(r) /\ cur'[r].qobuz = "err" => cur'[r].net.dab = 1
          /\ Returns(r) /\ SearchFailed(r)' =>
                res'[r].MatchStatus = "NOT_FOUND" /\ cur'[r].empty
          /\ pc[r] = "emit" /\ SearchFailed(r) /\ pc'[r] # "emit" =>
                /\ pc'[r] = "ready"
                /\ last'[r] = [input |-> cur[r].input, id |-> ""]]_vars

\* Qobuz and DAB both failed for a track, and its NOT_FOUND has been
\* returned to the matching loop
C27_Witness ==
    \E r \in Requests :
       /\ pc[r] = "emit"
       /\ cur[r].qobuz = "err"
       /\ cur[r].dab = "err"
       /\ cur[r].net.qobuz = 1 /\ cur[r].net.dab = 1
       /\ res[r].MatchStatus = "NOT_FOUND"

\* the platform id the mapping m carries for a descriptor of type sourceType
PlatformID(m, sourceType) ==
    IF sourceType = "spotify" THEN m.SpotifyID ELSE m.YoutubeID

\* C30 as stated: when MatchTrack returns, for a Spotify or YouTube
\* descriptor whose id no row holds yet, the dab_id of a row of the
\* registry, be it from a search or from the registry by the enriched ISRC,
\* a write that merges the descriptor's id into that row is under way, so
\* that a later lookup by this id hits
C30_RowAccumulatesPaths ==
    [][\A r \in Requests :
          /\ Returns(r)
          /\ res'[r].MatchStatus = "FOUND"
          /\ cur'[r].t.Type \in {"spotify", "youtube"}
          /\ HasRow(registry, res'[r].DabTrackID)
          /\ Lookup(registry, cur'[r].t.Type, cur'[r].t.SourceID) = ""
          => \E m \in BagToSet(pending') :
                /\ m.DabID = res'[r].DabTrackID
                /\ PlatformID(m, cur'[r].t.Type) = cur'[r].t.SourceID]_vars

\* C32 as stated: every non-empty isrc of a row of the registry satisfies
\* isValidISRC, whatever ISRC the matched descriptors carried
C32_StoredISRCValid ==
    \A i \in 1..Len(registry) :
       registry[i].isrc # "" => isValidISRC(registry[i].isrc)

\* C33 as stated: no two rows of the registry hold the same non-empty
\* spotify_id, youtube_id or isrc
C33_KeysUnique ==
    \A sourceType \in SourceTypes :
       \A i, j \in 1..Len(registry) :
          /\ Column(registry[i], sourceType) # ""
          /\ Column(registry[i], sourceType) = Column(registry[j], sourceType)
          => i = j

\* the step is one in which request r sends a request to the secondary
\* catalog through Client.Do: the token validation or a searchDab
SendsToDab(r) ==
    \/ pc[r] = "auth" /\ pc'[r] # "auth"
    \/ pc[r] = "search" /\ cur'[r].net.dab > cur[r].net.dab

\* C35: every request to the secondary catalog made for conversion request r
\* is sent with the token of r, the one r passed to GetClient, whatever the
\* other requests did in between
C35_TokenIsolation ==
    [][\A r \in Requests : SendsToDab(r) => client[r].Token = r]_vars

\* two requests with different tokens are under way together: the second
\* called GetClient and validated its token before the first, which called
\* GetClient earlier, sent its searchDab
C35_Witness ==
    \E r1, r2 \in Requests :
       /\ r1 < r2
       /\ client[r1] # NoClient /\ client[r2] # NoClient
       /\ client[r1].Token # client[r2].Token
       /\ pc[r1] = "emit" /\ cur[r1].net.dab = 1
       /\ pc[r2] = "ready"

\* C39: when MatchTrack has returned, whatever the outcome, the track of the
\* result has the type and the source id of the caller's descriptor, and
\* its ISRC is the caller's unless the descriptor is a YouTube track
\* without ISRC and MusicBrainz was asked and returned this ISRC; during
\* the call the caller's descriptor does not change
C39_DescriptorKept ==
    /\ [](\A r \in Requests :
            pc[r] = "emit" =>
               LET in  == cur[r].input
                   out == res[r].Track
               IN  /\ out.Type = in.Type
                   /\ out.SourceID = in.SourceID
                   /\ out.ISRC # in.ISRC =>
                         /\ in.Type = "youtube" /\ in.ISRC = ""
                         /\ cur[r].net.mb = 1
                         /\ out.ISRC \in MBAnswers \ {""})
    /\ [][\A r \in Requests :
            pc[r] \in {"cache", "enrich", "search"} => cur'[r].input = cur[r].input]_vars

\* a YouTube track without ISRC was enriched and then found by the search:
\* the result carries the ISRC of MusicBrainz, the caller's descriptor none
C39_Witness ==
    \E r \in Requests :
       /\ pc[r] = "emit"
       /\ cur[r].input = Track("youtube", "y1", "")
       /\ res[r].Track = Track("youtube", "y1", "GBAYE2000674")
       /\ res[r].MatchStatus = "FOUND"
       /\ cur[r].via = "search"

(* ---------------- claims on MatchTrack from the search on -------------- *)

\* candidate a is of at least the audio quality of b: sampling rate first,
\* bit depth second
AtLeast(a, b) ==
    \/ a.SamplingRate > b.SamplingRate
    \/ a.SamplingRate = b.SamplingRate /\ a.BitDepth >= b.BitDepth

\* 12 characters, the first five upper-case letters, the other seven digits
WellFormed(s) ==
    /\ Len(Chars(s)) = 12
    /\ \A i \in 1..5 : Chars(s)[i] \in Upper
    /\ \A i \in 6..12 : Chars(s)[i] \in Digit

\* C13 as stated: when the search by a valid ISRC returns candidates, the
\* candidate MatchTrack returns is one of them and none of them is of
\* better audio quality
C13_BestQuality ==
    \A r \in Requests :
       pc[r] = "emit" /\ WellFormed(cur[r].t.ISRC) /\ Len(cur[r].results) > 0 =>
          /\ \E i \in 1..Len(cur[r].results) : cur[r].results[i] = res[r].RawTrack
          /\ \A i \in 1..Len(cur[r].results) :
                AtLeast(res[r].RawTrack, cur[r].results[i])

\* an ISRC as recordings carry it: two letters of the country, three
\* letters or digits of the registrant, seven digits (year and designation)
RecordingCode(s) ==
    /\ Len(Chars(s)) = 12
    /\ \A i \in 1..2 : Chars(s)[i] \in Upper
    /\ \A i \in 3..5 : Chars(s)[i] \in Upper \cup Digit
    /\ \A i \in 6..12 : Chars(s)[i] \in Digit

\* C14 as stated: when the descriptor carries a valid ISRC, such as
\* USUM71921131, and the search returns at least one candidate, the result
\* is FOUND with confidence 1.0 in either mode, whatever the similarity of
\* the candidates
C14_ISRCExact ==
    \A r \in Requests :
       pc[r] = "emit" /\ RecordingCode(cur[r].t.ISRC) /\ Len(cur[r].results) > 0 =>
          res[r].MatchStatus = "FOUND" /\ res[r].Confidence = 100

Lower == {"a","b","c","d","e","f","g","h","i","j","k","l","m",
          "n","o","p","q","r","s","t","u","v","w","x","y","z"}

\* 12 characters, the first five alphabetic, the other seven numeric
AlphabeticThenNumeric(s) ==
    /\ Len(Chars(s)) = 12
    /\ \A i \in 1..5 : Chars(s)[i] \in Upper \cup Lower
    /\ \A i \in 6..12 : Chars(s)[i] \in Digit

\* C15 as stated: the query given to client.Search is the ISRC exactly when
\* the descriptor's ISRC has 12 characters, the first five alphabetic and
\* the other seven numeric; otherwise it is the artist and title text
C15_ExactIffValid ==
    \A r \in Requests :
       pc[r] = "emit" =>
          cur[r].queries = <<IF AlphabeticThenNumeric(cur[r].t.ISRC) THEN "isrc" ELSE "text">>

\* C15, amended: the query given to client.Search is the ISRC exactly when
\* the descriptor's ISRC has 12 characters, the first five upper-case
\* letters A-Z and the other seven digits; otherwise it is the artist and
\* title text
C15_ExactIffUpperValid ==
    \A r \in Requests :
       pc[r] = "emit" =>
          cur[r].queries = <<IF WellFormed(cur[r].t.ISRC) THEN "isrc" ELSE "text">>

\* the ISRC of the README's example, with a digit in its fifth place, has
\* been treated as absent: the search went by artist and title
C15_Witness ==
    \E r \in Requests :
       /\ pc[r] = "emit"
       /\ cur[r].t.ISRC = "USUM71921131"
       /\ cur[r].queries = <<"text">>

\* the call of r searched by artist and title and has returned
Fuzzy(r) == pc[r] = "emit" /\ cur[r].queries = <<"text">>

\* the similarities of the candidates the search of r returned
Sims(r) == {cur[r].results[i].sim : i \in 1..Len(cur[r].results)}

\* C18: in fuzzy matching a candidate is accepted exactly when its score is
\* at least 0.95 in strict mode and 0.85 in lenient mode: the result is
\* FOUND exactly when some candidate has such a score, the accepted
\* candidate has one, and when none has one nothing is returned, not even
\* the best of them
C18_ThresholdBoundary ==
    \A r \in Requests :
       Fuzzy(r) =>
          LET least == IF cur[r].mode = "strict" THEN 95 ELSE 85 IN
          /\ res[r].MatchStatus = "FOUND" <=> \E s \in Sims(r) : s >= least
          /\ res[r].MatchStatus = "FOUND" =>
                res[r].RawTrack.sim >= least /\ res[r].Confidence >= least
          /\ res[r].MatchStatus # "FOUND" =>
                /\ res[r].MatchStatus = "NOT_FOUND"
                /\ res[r].DabTrackID = "" /\ res[r].RawTrack = NoCand

\* a candidate scoring exactly 0.85 has been accepted in lenient mode
C18_Witness ==
    \E r \in Requests :
       /\ Fuzzy(r)
       /\ cur[r].mode = "lenient"
       /\ res[r].MatchStatus = "FOUND"
       /\ res[r].Confidence = 85

\* the place of the first candidate of the highest score among results
FirstMax(results) ==
    CHOOSE i \in 1..Len(results) :
       /\ \A j \in 1..Len(results) : results[j].sim <= results[i].sim
       /\ \A j \in 1..(i - 1) : results[j].sim < results[i].sim

\* C19: in fuzzy matching the result is FOUND exactly when some candidate
\* clears the threshold of the mode; the candidate returned is then the
\* one of the highest score, the earliest of them when several share it,
\* and the confidence is its score
C19_MaximumCandidate ==
    \A r \in Requests :
       Fuzzy(r) =>
          LET results == cur[r].results IN
          /\ res[r].MatchStatus = "FOUND" <=>
                \E i \in 1..Len(results) : results[i].sim >= Threshold(cur[r].mode)
          /\ res[r].MatchStatus = "FOUND" =>
                /\ res[r].RawTrack = results[FirstMax(results)]
                /\ res[r].DabTrackID = ToString(results[FirstMax(results)].ID)
                /\ res[r].Confidence = results[FirstMax(results)].sim

\* two candidates of the same, highest score were returned, and the result
\* is the first of them
C19_Witness ==
    \E r \in Requests :
       /\ Fuzzy(r)
       /\ Len(cur[r].results) = 2
       /\ cur[r].results[1].sim = cur[r].results[2].sim
       /\ res[r].MatchStatus = "FOUND"
       /\ res[r].RawTrack = cur[r].results[1]

(* ------------------ claims on MatchTrack calls under way -------------- *)

\* C31: every started UpsertMapping goroutine ends, by executing its
\* statement or by failing, so that the started goroutines do not stay
\* for ever; and a MatchTrack call never waits for one of them: whatever
\* goroutines are under way, the call can take its next step, or is
\* waiting for a limiter that time refills
C31_UpsertsEnd ==
    /\ (pending # EmptyBag) ~> (pending = EmptyBag)
    /\ [](\A r \in Requests :
            InMatchTrack(r) =>
               \/ ENABLED (CacheCheck(r) \/ Enrich(r) \/ Search(r))
               \/ ENABLED Tick)

\* a call has returned the result of a search, and the goroutine it started
\* has executed its statement and ended
C31_Witness ==
    \E r \in Requests :
       /\ pc[r] = "emit"
       /\ cur[r].via = "search"
       /\ pending = EmptyBag
       /\ HasRow(registry, res[r].DabTrackID)
       /\ written[res[r].DabTrackID] # [isrc |-> << >>, spotify_id |-> << >>,
                                         youtube_id |-> << >>]

(* --------------------- claims on MatchTrack at step 1 ------------------ *)

\* C34 as stated: step 1 never returns a cached id for a descriptor whose
\* SourceID is empty, whatever rows the registry holds, rows with an empty
\* spotify_id or youtube_id included
C34_EmptyKeyMisses ==
    \A r \in Requests :
       pc[r] # "cache" /\ cur[r].input.SourceID = "" =>
          cur[r].via # "cache" /\ res[r] = NoResult

(* --------------------- claims on MatchTrack at step 2 ------------------ *)

\* step 2 of the call of r is over
Enriched(r) == pc[r] # "enrich"

\* recording rec scores above 80 and carries an ISRC
Qualifies(rec) == rec.Score > 80 /\ Len(rec.ISRCs) > 0

\* the request of r got a 200 response whose body decoded
Answered(r) ==
    ~cur[r].outcome.err /\ cur[r].outcome.StatusCode = 200 /\ cur[r].outcome.decodes

\* C21 as stated: GetISRCFromMetadata looks at the first recording only:
\* it returns that recording's first ISRC when it scores above 80 and has
\* an ISRC, and the empty string otherwise, also when a later recording
\* scores above 80 and has an ISRC
C21_TopResultOnly ==
    \A r \in Requests :
       Enriched(r) /\ Answered(r) =>
          LET recordings == cur[r].outcome.Recordings IN
          cur[r].mbISRC = IF Len(recordings) > 0 /\ Qualifies(recordings[1])
                          THEN recordings[1].ISRCs[1] ELSE ""

\* C22: on a transport error, a status other than 200, a body that does
\* not decode or an empty list of recordings GetISRCFromMetadata returns
\* the empty string, and MatchTrack goes on to the search with the
\* descriptor as it was, without an ISRC and without a result so far
C22_EnrichNeverRaises ==
    \A r \in Requests :
       Enriched(r) /\ (~Answered(r) \/ Len(cur[r].outcome.Recordings) = 0) =>
          /\ cur[r].mbISRC = ""
          /\ cur[r].t = cur[r].input
          /\ pc[r] = "search"
          /\ res[r] = NoResult

\* MusicBrainz answered 503 with a body that holds a recording with an
\* ISRC held by the registry, and MatchTrack has gone on to the search
\* without an ISRC
C22_Witness ==
    \E r \in Requests :
       /\ pc[r] = "search"
       /\ cur[r].outcome.StatusCode = 503
       /\ cur[r].outcome.decodes
       /\ Len(cur[r].outcome.Recordings) > 0
       /\ Qualifies(cur[r].outcome.Recordings[1])
       /\ Lookup(registry, "isrc", cur[r].outcome.Recordings[1].ISRCs[1]) # ""
       /\ cur[r].t.ISRC = ""

(* ------------------ claims on the matching loops of a batch ------------ *)

\* the request r is in a matching loop or has left it
InBatch(r) == cur[r].path # ""

\* the tracks among the first n of tracks for which MatchTrack is called
RECURSIVE Handed(_, _)
Handed(tracks, n) ==
    IF n = 0 THEN << >>
    ELSE IF tracks[n] = BlankRow THEN Handed(tracks, n - 1)
    ELSE Append(Handed(tracks, n - 1), tracks[n])

\* the result is one for the descriptor t (MatchTrack may have added an ISRC)
ResultFor(result, t) ==
    /\ result.Track.Type = t.Type
    /\ result.Track.SourceID = t.SourceID
    /\ t.ISRC # "" => result.Track.ISRC = t.ISRC

\* the tracks of r whose resolution is over
Resolved(r) ==
    Handed(cur[r].tracks, IF pc[r] = "search" THEN cur[r].i - 1 ELSE cur[r].i)

\* C28: while the track at index i is being resolved, and between two
\* tracks, the results so far are those of the tracks before it, in input
\* order, one processing event has been sent for each of them, in that
\* order and with its result, and nothing else; and the complete event,
\* sent last, holds the results of all tracks in input order
C28_InputOrder ==
    \A r \in Requests :
       InBatch(r) =>
          LET results == cur[r].results
              events  == cur[r].events
              n       == Len(Resolved(r))
          IN  /\ Len(results) = n
              /\ \A k \in 1..n : ResultFor(results[k], Resolved(r)[k])
              /\ Len(events) = IF pc[r] = "done" THEN n + 1 ELSE n
              /\ \A k \in 1..n :
                    /\ events[k].status = "processing"
                    /\ events[k].result = results[k]
                    /\ \A j \in 1..(k - 1) : events[j].index < events[k].index
              /\ pc[r] = "done" =>
                    /\ n = Len(Handed(cur[r].tracks, Len(cur[r].tracks)))
                    /\ events[n + 1] = Complete(results)

\* a batch of two different tracks is complete: two processing events and
\* the complete event have been sent, and the results are in input order
C28_Witness ==
    \E r \in Requests :
       /\ pc[r] = "done"
       /\ Len(cur[r].tracks) = 2
       /\ cur[r].tracks[1] # cur[r].tracks[2]
       /\ Len(cur[r].results) = 2
       /\ ResultFor(cur[r].results[1], cur[r].tracks[1])
       /\ ResultFor(cur[r].results[2], cur[r].tracks[2])
       /\ Len(cur[r].events) = 3

\* C29 as stated: a request whose caller has disconnected and that stands
\* between two tracks, or after the last one, resolves no further track
\* and sends no further event, neither a processing nor a complete event,
\* in the loop of handleConvert and in the loop of ParseCSV alike
C29_CancelBetweenTracks ==
    [][\A r \in Requests :
          InBatch(r) /\ cancelled[r] # "" /\ pc[r] = "ready" =>
             /\ pc'[r] \notin {"search", "done"}
             /\ cur'[r].events = cur[r].events]_vars

\* the processing events among the events sent for request r
ProcessingEvents(r) ==
    SelectSeq(cur[r].events, LAMBDA e : e.status = "processing")

\* the complete events among the events sent for request r
CompleteEvents(r) ==
    SelectSeq(cur[r].events, LAMBDA e : e.status = "complete")

\* C36 as stated: when a batch has run to completion, its processing events
\* carry the indexes 1, 2, ... in this order, each reports as total the
\* number of processing events, and the tracks list of the complete event is
\* of that length; for URL batches and for CSV batches
C36_EventsNumbered ==
    \A r \in Requests :
       pc[r] = "done" =>
          LET sent == ProcessingEvents(r) IN
          /\ \A k \in 1..Len(sent) : sent[k].index = k /\ sent[k].total = Len(sent)
          /\ \A k \in 1..Len(CompleteEvents(r)) :
                Len(CompleteEvents(r)[k].tracks) = Len(sent)

(* ------------------ claims on the event stream of a request ------------ *)

\* the events of the stream that end it
Terminal(r) ==
    SelectSeq(cur[r].events, LAMBDA e : e.status \in {"complete", "error"})

\* sequence a is the beginning of sequence b
Prefix(a, b) == Len(a) <= Len(b) /\ SubSeq(b, 1, Len(a)) = a

\* C37: a request sends at most one terminal event, complete or error, and
\* nothing after it; when the complete event is sent, one processing event
\* has been sent before it for every track of the batch; and an event, once
\* sent, stays sent
C37_OneTerminalEvent ==
    /\ [](\A r \in Requests :
            LET events == cur[r].events IN
            /\ Len(Terminal(r)) <= 1
            /\ \A k \in 1..Len(events) :
                  events[k].status \in {"complete", "error"} => k = Len(events)
            /\ Len(CompleteEvents(r)) = 1 =>
                  Len(ProcessingEvents(r))
                     = Len(Handed(cur[r].tracks, Len(cur[r].tracks))))
    /\ [][\A r \in Requests : Prefix(cur[r].events, cur'[r].events)]_vars

\* a stream has ended with its complete event after two processing events,
\* and nothing was sent since
C37_Witness ==
    \E r \in Requests :
       /\ pc[r] = "done"
       /\ Len(ProcessingEvents(r)) = 2
       /\ cur[r].events[Len(cur[r].events)].status = "complete"
       /\ cur[r].events[1].status \in {"info", "extracting"}

(* ------------------ claims on handleConvert from its first line -------- *)

\* request r is past its authentication
PastAuth(r) == pc[r] \notin {"idle", "arrived", "auth"}

\* nothing has been done for request r: no event sent, no track handed to
\* MatchTrack, which alone searches the catalogs, no result
NoWork(r) ==
    /\ cur[r].events = << >>
    /\ cur[r].i = 0
    /\ cur[r].results = << >>
    /\ pc[r] \notin {"request", "sse", "parse", "ready", "search", "done", "failed"}

\* C38: a request without token or with a token that is not a session's is,
\* once past its authentication, answered with 401 with nothing done for it;
\* and whatever the token, extraction, events and MatchTrack calls happen
\* only for a request whose validation returned a userID
C38_AuthFirst ==
    \A r \in Requests :
       pc[r] # "idle" =>
          /\ PastAuth(r) /\ cur[r].token # "good" =>
                cur[r].status = 401 /\ pc[r] = "rejected" /\ NoWork(r)
          /\ cur[r].status = 401 => pc[r] = "rejected" /\ NoWork(r)
          /\ ~NoWork(r) => cur[r].userID # "" /\ cur[r].token = "good"

\* a request with a token that is not a session's has been answered with
\* 401 after the validation took the token of its client's limiter
C38_Witness ==
    \E r \in Requests :
       /\ pc[r] = "rejected"
       /\ cur[r].token = "bad"
       /\ cur[r].status = 401
       /\ client[r] # NoClient /\ limiters[client[r].Limiter] = 0
       /\ NoWork(r)

====
